---- MODULE Spec2Model ----
(***************************************************************************)
(* Model of pic10b::cache<T, N, ORD> (src/Cache.h): a std::list<T> with    *)
(* newest-first insertion, eviction of the oldest element through          *)
(* list.remove on the value read through last (or first), and the cached   *)
(* extrema high / low.                                                     *)
(*                                                                         *)
(* T is int.  The raw pointers first and last are modelled by what they    *)
(* refer to:                                                               *)
(*   "null"  nullptr                                                       *)
(*   "arg"   &data, the address of the object the caller bound to the      *)
(*           parameter of insert (never an element of the list).  When     *)
(*           the caller keeps that object alive and unmodified a read      *)
(*           yields the inserted value (stable = TRUE); when the object    *)
(*           was a temporary (always the case for emplace) or was          *)
(*           reassigned by the caller, a read yields any value.            *)
(*   "node"  &list.back() taken on a non-empty list                        *)
(*   "end"   &list.back() taken on an empty list (undefined behaviour:     *)
(*           a non-null address whose contents are arbitrary)              *)
(***************************************************************************)
EXTENDS Integers, Sequences, FiniteSets, TLC

\* ---------------------------------------------------------------- bounds
MaxCap == 3
MaxInserts == 4

\* Values the caller inserts.
Values == {2, 5, 9}

\* T(): the value-initialised int held by high and low after construction.
Default == 0

\* Values a read through an invalid address may produce.
AnyT == Values \cup {Default}

Orders == {"less", "greater"}

VARIABLES
    N,          \* template parameter: capacity
    order,      \* ORD order
    list,       \* std::list<T> list, front (newest) first
    first,      \* const T* first
    last,       \* const T* last
    high,       \* T high
    low,        \* T low
    call,       \* the most recent call of the public interface
    ret,        \* how that call returned
    inserted,   \* values of the insert/emplace calls that returned normally
    manualPop,  \* the caller has called pop() itself
    emptyMark,  \* index in inserted of the last insert that began with size() == 0
    oneMark     \* index in inserted of the last insert that ended with size() == 1

vars == <<N, order, list, first, last, high, low, call, ret, inserted,
          manualPop, emptyMark, oneMark>>

\* ---------------------------------------------------------------- pointers
NullPtr == [kind |-> "null", val |-> Default, stable |-> FALSE]

EndPtr == [kind |-> "end", val |-> Default, stable |-> FALSE]

NodePtr == [kind |-> "node", val |-> Default, stable |-> FALSE]

ArgPtr(v, s) == [kind |-> "arg", val |-> IF s THEN v ELSE Default, stable |-> s]

\* &list.back()
BackPtr(l) == IF Len(l) = 0 THEN EndPtr ELSE NodePtr

\* The values *p may yield while the list is l.
Deref(p, l) ==
    CASE p.kind = "arg" /\ p.stable -> {p.val}
      [] p.kind = "node" /\ Len(l) > 0 -> {l[Len(l)]}
      [] OTHER -> AnyT

\* ---------------------------------------------------------------- helpers
\* ORD::operator()
ord(o, a, b) == IF o = "less" THEN a < b ELSE a > b

\* cache::size(): walks the list and counts
size(l) == Len(l)

\* std::list::remove(value): erases every element equal to value
Remove(l, v) == SelectSeq(l, LAMBDA x : x # v)

\* push_back in place of push_front.
PushBack(l, v) == Append(l, v)

\* std::list::push_front
PushFront(l, v) == <<v>> \o l

\* ---------------------------------------------------------------- pop
\* pop with first cleared before the emptiness test throws.
popClearingFirst(l, f, la) ==
    IF la.kind = "null"
    THEN {[thrown |-> TRUE, list |-> l, first |-> NullPtr, last |-> la]}
    ELSE IF size(l) = 1
    THEN {[thrown |-> FALSE, list |-> Remove(l, r),
           first |-> NullPtr, last |-> NullPtr] : r \in Deref(f, l)}
    ELSE {[thrown |-> FALSE, list |-> Remove(l, r),
           first |-> f, last |-> BackPtr(Remove(l, r))] : r \in Deref(la, l)}

\* cache::pop() on a cache whose members are l, f, la: the set of possible
\* results.  thrown = TRUE is std::logic_error("pop nothing").
pop(l, f, la) ==
    IF la.kind = "null"
    THEN {[thrown |-> TRUE, list |-> l, first |-> f, last |-> la]}
    ELSE IF size(l) = 1
    THEN {[thrown |-> FALSE, list |-> Remove(l, r),
           first |-> NullPtr, last |-> NullPtr] : r \in Deref(f, l)}
    ELSE {[thrown |-> FALSE, list |-> Remove(l, r),
           first |-> f, last |-> BackPtr(Remove(l, r))] : r \in Deref(la, l)}

\* ---------------------------------------------------------------- insert
\* Evict with the test size() + 1 == N.
EvictOneEarly(n, l, f, la) ==
    IF size(l) + 1 = n
    THEN pop(l, f, la)
    ELSE {[thrown |-> FALSE, list |-> l, first |-> f, last |-> la]}

\* Evict with the test size() > N.
EvictWhenOver(n, l, f, la) ==
    IF size(l) > n
    THEN pop(l, f, la)
    ELSE {[thrown |-> FALSE, list |-> l, first |-> f, last |-> la]}

\* if (size() == N) pop();
Evict(n, l, f, la) ==
    IF size(l) = n
    THEN pop(l, f, la)
    ELSE {[thrown |-> FALSE, list |-> l, first |-> f, last |-> la]}

\* SetMarkers with the seeding of low left out of the size() == 1 branch.
SetMarkersHighOnly(l, la, h, lo, v, p) ==
    IF size(l) = 1
    THEN [first |-> p, last |-> p, high |-> v, low |-> lo]
    ELSE [first |-> p, last |-> la, high |-> h, low |-> lo]

\* if (size() == 1) { high = data; low = data; first = last = &data; }
\* else first = &data;
\* l is the list after push_front; the result is <<first, last, high, low>>.
SetMarkers(l, la, h, lo, v, p) ==
    IF size(l) = 1
    THEN [first |-> p, last |-> p, high |-> v, low |-> v]
    ELSE [first |-> p, last |-> la, high |-> h, low |-> lo]

\* UpdateExtrema with the else-if comparing data against high, not low.
UpdateExtremaLowAgainstHigh(o, h, lo, v) ==
    IF ord(o, h, v)
    THEN [high |-> v, low |-> lo]
    ELSE IF ord(o, v, h)
         THEN [high |-> h, low |-> v]
         ELSE [high |-> h, low |-> lo]

\* UpdateExtrema with the arguments of both comparisons exchanged.
UpdateExtremaExchanged(o, h, lo, v) ==
    IF ord(o, v, h)
    THEN [high |-> v, low |-> lo]
    ELSE IF ord(o, lo, v)
         THEN [high |-> h, low |-> v]
         ELSE [high |-> h, low |-> lo]

\* UpdateExtrema with the else-if branch left out.
UpdateExtremaHighOnly(o, h, lo, v) ==
    IF ord(o, h, v)
    THEN [high |-> v, low |-> lo]
    ELSE [high |-> h, low |-> lo]

\* if (order(high, data)) high = data; else if (order(data, low)) low = data;
UpdateExtrema(o, h, lo, v) ==
    IF ord(o, h, v)
    THEN [high |-> v, low |-> lo]
    ELSE IF ord(o, v, lo)
         THEN [high |-> h, low |-> v]
         ELSE [high |-> h, low |-> lo]

\* The part of insert after the eviction, from the eviction's result e.
Admit(o, e, h, lo, v, p) ==
    LET l2 == PushFront(e.list, v)
        m  == SetMarkers(l2, e.last, h, lo, v, p)
        x  == UpdateExtrema(o, m.high, m.low, v)
    IN  [thrown |-> FALSE, list |-> l2, first |-> m.first, last |-> m.last,
         high |-> x.high, low |-> x.low]

\* cache::insert(data) with &data modelled by p: the set of possible results.
insert(n, o, l, f, la, h, lo, v, p) ==
    {IF e.thrown
     THEN [thrown |-> TRUE, list |-> l, first |-> f, last |-> la,
           high |-> h, low |-> lo]
     ELSE Admit(o, e, h, lo, v, p) : e \in Evict(n, l, f, la)}

\* ---------------------------------------------------------------- actions
Init ==
    /\ N \in 0..MaxCap
    /\ order \in Orders
    /\ list = <<>>
    /\ first = NullPtr
    /\ last = NullPtr
    /\ high = Default
    /\ low = Default
    /\ call = [op |-> "none", val |-> Default]
    /\ ret = "none"
    /\ inserted = <<>>
    /\ manualPop = FALSE
    /\ emptyMark = 0
    /\ oneMark = 0

\* The caller's call op(v) reaches insert with &data = p and ends as r.
DoInsert(op, v, p, r) ==
    /\ call' = [op |-> op, val |-> v]
    /\ UNCHANGED <<N, order, manualPop>>
    /\ IF r.thrown
       THEN /\ ret' = "logic_error"
            /\ UNCHANGED <<list, first, last, high, low, inserted,
                           emptyMark, oneMark>>
       ELSE /\ ret' = "ok"
            /\ list' = r.list
            /\ first' = r.first
            /\ last' = r.last
            /\ high' = r.high
            /\ low' = r.low
            /\ inserted' = Append(inserted, v)
            /\ emptyMark' = IF size(list) = 0 THEN Len(inserted) + 1
                            ELSE emptyMark
            /\ oneMark' = IF size(r.list) = 1 THEN Len(inserted) + 1
                          ELSE oneMark

\* c.insert(x): stable says whether the caller's object x keeps its value
\* for as long as the cache holds its address (kinds: the cases allowed).
InsertWith(kinds) ==
    /\ Len(inserted) < MaxInserts
    /\ \E v \in Values, stable \in kinds :
         \E r \in insert(N, order, list, first, last, high, low, v,
                         ArgPtr(v, stable)) :
            DoInsert("insert", v, ArgPtr(v, stable), r)

Insert == InsertWith(BOOLEAN)

\* c.insert(x) by a caller that keeps every x alive and unmodified.
InsertKept == InsertWith({TRUE})

\* c.emplace(args...) where T(args...) = v: insert(T(data...)) binds data to
\* a temporary that is destroyed when emplace returns.
Emplace ==
    /\ Len(inserted) < MaxInserts
    /\ \E v \in Values :
         \E r \in insert(N, order, list, first, last, high, low, v,
                         ArgPtr(v, FALSE)) :
            DoInsert("emplace", v, ArgPtr(v, FALSE), r)

\* EmplaceThrows with the eviction done before T(args...) is constructed.
EmplaceThrowsAfterEvict ==
    /\ call' = [op |-> "emplace", val |-> Default]
    /\ ret' = "ctor_error"
    /\ \E e \in Evict(N, list, first, last) :
         /\ list' = e.list
         /\ first' = e.first
         /\ last' = e.last
    /\ UNCHANGED <<N, order, high, low, inserted, manualPop, emptyMark,
                   oneMark>>

\* c.emplace(args...) where the constructor T(args...) throws: insert is
\* never entered.
EmplaceThrows ==
    /\ call' = [op |-> "emplace", val |-> Default]
    /\ ret' = "ctor_error"
    /\ UNCHANGED <<N, order, list, first, last, high, low, inserted,
                   manualPop, emptyMark, oneMark>>

\* Pop with the extrema cleared when the eviction empties the list.
PopClearingExtrema ==
    /\ \E r \in pop(list, first, last) :
         /\ call' = [op |-> "pop", val |-> Default]
         /\ ret' = IF r.thrown THEN "logic_error" ELSE "ok"
         /\ list' = r.list
         /\ first' = r.first
         /\ last' = r.last
         /\ manualPop' = TRUE
         /\ high' = IF size(r.list) = 0 THEN Default ELSE high
         /\ low' = IF size(r.list) = 0 THEN Default ELSE low
         /\ UNCHANGED <<N, order, inserted, emptyMark, oneMark>>

\* c.pop() called by the user of the cache.
Pop ==
    /\ \E r \in pop(list, first, last) :
         /\ call' = [op |-> "pop", val |-> Default]
         /\ ret' = IF r.thrown THEN "logic_error" ELSE "ok"
         /\ list' = r.list
         /\ first' = r.first
         /\ last' = r.last
         /\ manualPop' = TRUE
         /\ UNCHANGED <<N, order, high, low, inserted, emptyMark, oneMark>>

\* for (it = c.begin(); it != c.end(); ++it) read *it: the const_iterator
\* walk from list.begin() to list.end().
Traverse ==
    /\ call' = [op |-> "traverse", val |-> Default]
    /\ ret' = "ok"
    /\ UNCHANGED <<N, order, list, first, last, high, low, inserted,
                   manualPop, emptyMark, oneMark>>

\* c.size(): returns the number of elements counted.
Size ==
    /\ call' = [op |-> "size", val |-> size(list)]
    /\ ret' = "ok"
    /\ UNCHANGED <<N, order, list, first, last, high, low, inserted,
                   manualPop, emptyMark, oneMark>>

\* c.get_low(): returns low.
GetLow ==
    /\ call' = [op |-> "get_low", val |-> low]
    /\ ret' = "ok"
    /\ UNCHANGED <<N, order, list, first, last, high, low, inserted,
                   manualPop, emptyMark, oneMark>>

\* c.get_high(): returns high.
GetHigh ==
    /\ call' = [op |-> "get_high", val |-> high]
    /\ ret' = "ok"
    /\ UNCHANGED <<N, order, list, first, last, high, low, inserted,
                   manualPop, emptyMark, oneMark>>

Next == Insert \/ Emplace \/ EmplaceThrows \/ Pop

Spec == Init /\ [][Next]_vars

\* Callers that use insert and pop only.
NextInsertPop == Insert \/ Pop

SpecInsertPop == Init /\ [][NextInsertPop]_vars

\* Callers that use insert and pop only and keep every inserted object alive
\* and unmodified: no read through first or last is undefined, except after
\* &list.back() was taken on an empty list.
NextKept == InsertKept \/ Pop

SpecKept == Init /\ [][NextKept]_vars

\* The whole public interface, the read-only members included.
NextObserve ==
    Insert \/ Emplace \/ EmplaceThrows \/ Pop \/ Traverse \/ Size \/ GetLow
        \/ GetHigh

SpecObserve == Init /\ [][NextObserve]_vars

\* ---------------------------------------------------------------- properties
Range(s) == {s[i] : i \in 1..Len(s)}

Front(s) == SubSeq(s, 1, Len(s) - 1)

Reverse(s) == [i \in 1..Len(s) |-> s[Len(s) + 1 - i]]

Distinct(s) == \A i, j \in 1..Len(s) : s[i] = s[j] => i = j

Min2(a, b) == IF a < b THEN a ELSE b

\* The last k elements of s.
LastK(s, k) == SubSeq(s, Len(s) - k + 1, Len(s))

\* The values of s from index i on.
Since(s, i) == {s[j] : j \in i..Len(s)}

\* The greatest / least element of S under the ordering predicate o.
Highest(o, S) == CHOOSE x \in S : \A y \in S : ~ord(o, x, y)

Lowest(o, S) == CHOOSE x \in S : \A y \in S : ~ord(o, y, x)

IsInsertCall(c) == c.op \in {"insert", "emplace"}

\* C1: after any sequence of insert, emplace and pop calls, count() <= N.
C1_CountWithinCapacity == size(list) <= N

\* C2: a successful pop() on a cache holding k >= 1 elements removes only the
\* element at the tail: the traversal afterwards is the previous traversal
\* without its last element (so count() drops by one), duplicates or not.
C2_PopRemovesOnlyTail ==
    [][(call'.op = "pop" /\ ret' = "ok" /\ size(list) >= 1)
         => list' = Front(list)]_vars

\* C3: in every reachable state with count() == 0, pop() fails with
\* std::logic_error.
C3_PopOnEmptyThrows ==
    size(list) = 0 => \A r \in pop(list, first, last) : r.thrown

\* C4: insert(value) on a full cache (count() == N, N >= 1) evicts exactly the
\* oldest element: afterwards the traversal is value followed by the previous
\* traversal without its last element, and count() == N.
C4_InsertOnFullEvictsOldest ==
    [][(call'.op = "insert" /\ N >= 1 /\ size(list) = N)
         => /\ ret' = "ok"
            /\ list' = <<call'.val>> \o Front(list)
            /\ size(list') = N]_vars

\* C5: for N >= 1, insert(value) in any state reachable through insert and
\* pop calls returns normally, and value is then the first element of the
\* traversal.
C5_InsertNeverFails ==
    [][(call'.op = "insert" /\ N >= 1)
         => /\ ret' = "ok"
            /\ size(list') >= 1
            /\ Head(list') = call'.val]_vars

\* C6: after only insert calls with m pairwise distinct values on a cache of
\* capacity N >= 1, the cache holds exactly the last min(m, N) inserted
\* values, newest first.
C6_OnlyInsertsKeepLastN ==
    (N >= 1 /\ ~manualPop /\ Distinct(inserted))
        => list = Reverse(LastK(inserted, Min2(Len(inserted), N)))

C8_ExtremaEverInserted ==
    Len(inserted) > 0 =>
        /\ high = Highest(order, Range(inserted))
        /\ low = Lowest(order, Range(inserted))

\* C9: an insert(value) that leaves more than one element updates the extrema
\* from their values before the call: order(high, value) makes high = value
\* and keeps low; else order(value, low) makes low = value and keeps high;
\* else both are kept.  With capacity 3 and less-than, the inserts 5, 2, 9
\* on a new cache give (high, low) = (5,5), (5,2), (9,2).
C9_ExtremaUpdateRule ==
    [][/\ (IsInsertCall(call') /\ ret' = "ok" /\ size(list') > 1)
          => IF ord(order, high, call'.val)
             THEN high' = call'.val /\ low' = low
             ELSE IF ord(order, call'.val, low)
                  THEN low' = call'.val /\ high' = high
                  ELSE high' = high /\ low' = low
       /\ (N = 3 /\ order = "less" /\ ~manualPop')
          => /\ inserted' = <<5>> => <<high', low'>> = <<5, 5>>
             /\ inserted' = <<5, 2>> => <<high', low'>> = <<5, 2>>
             /\ inserted' = <<5, 2, 9>> => <<high', low'>> = <<9, 2>>]_vars

\* The third insert of the example has just returned.
C9_Witness ==
    /\ N = 3 /\ order = "less" /\ ~manualPop
    /\ call.op = "insert" /\ ret = "ok"
    /\ inserted = <<5, 2, 9>>
    /\ list = <<9, 2, 5>>
    /\ high = 9 /\ low = 2

C11_PopKeepsExtrema ==
    [][call'.op = "pop" => (high' = high /\ low' = low)]_vars

\* A successful pop() has emptied the cache, so the values high and low still
\* report are no longer resident.
C11_Witness ==
    /\ call.op = "pop" /\ ret = "ok"
    /\ size(list) = 0
    /\ Len(inserted) >= 2
    /\ high # low
    /\ high = Highest(order, Range(inserted))

\* C12: in every reachable state with count() == 1, pop() succeeds and
\* removes that element, leaving the empty traversal.
C12_PopOnSingleEmpties ==
    size(list) = 1 =>
        \A r \in pop(list, first, last) : ~r.thrown /\ r.list = <<>>

\* The members of the cache object.
members == <<list, first, last, high, low>>

\* A pop() call has just failed.
PopJustFailed == call.op = "pop" /\ ret = "logic_error"

\* An insert is entered by this step (insert, or emplace after T was built).
InsertEntered == IsInsertCall(call') /\ ret' # "ctor_error"

RECURSIVE IsSubseq(_, _)
\* a is b with some elements left out.
IsSubseq(a, b) ==
    IF a = <<>> THEN TRUE
    ELSE IF b = <<>> THEN FALSE
    ELSE IF Head(a) = Head(b) THEN IsSubseq(Tail(a), Tail(b))
    ELSE IsSubseq(a, Tail(b))

ObserverOps == {"traverse", "size", "get_low", "get_high"}

\* C14: in every reachable state the traversal is a subsequence of the
\* reversed history of inserted values (resident elements newest to oldest),
\* and traversal, size(), get_high() and get_low() leave the state unchanged
\* and report the list, its length, high and low.
C14_TraversalNewestFirst ==
    /\ [](IsSubseq(list, Reverse(inserted)))
    /\ [][call'.op \in ObserverOps
            => /\ members' = members
               /\ call'.op = "size" => call'.val = Len(list)
               /\ call'.op = "get_high" => call'.val = high
               /\ call'.op = "get_low" => call'.val = low]_vars

\* A traversal of a cache that holds several distinct values after some
\* were evicted.
C14_Witness ==
    /\ call.op = "traverse"
    /\ size(list) >= 2
    /\ size(list) < Len(inserted)
    /\ Distinct(list)

\* C15: emplace(args...) has exactly the effect of insert(T(args...)), the
\* argument being a temporary, when T is constructed; when the construction
\* of T fails the cache is left unchanged.
C15_EmplaceIsInsertOfTemporary ==
    [][call'.op = "emplace"
         => IF ret' = "ctor_error"
            THEN members' = members /\ inserted' = inserted
            ELSE \E r \in insert(N, order, list, first, last, high, low,
                                 call'.val, ArgPtr(call'.val, FALSE)) :
                    IF r.thrown
                    THEN ret' = "logic_error" /\ members' = members
                    ELSE /\ ret' = "ok"
                         /\ members' = <<r.list, r.first, r.last, r.high,
                                         r.low>>]_vars

\* The constructor has just failed in emplace on a full cache.
C15_Witness ==
    /\ call.op = "emplace" /\ ret = "ctor_error"
    /\ N >= 1
    /\ size(list) = N
    /\ high # low

\* C16: insert(value) on a cache with count() == k < N removes nothing:
\* it returns normally, count() becomes k + 1 and the traversal is value
\* followed by the previous traversal.
C16_InsertBelowCapacityKeepsAll ==
    [][(InsertEntered /\ size(list) < N)
         => /\ ret' = "ok"
            /\ list' = <<call'.val>> \o list
            /\ size(list') = size(list) + 1]_vars

\* After a manual pop made room, an insert has just been admitted in front
\* of an older element without an eviction.
C16_Witness ==
    /\ call.op = "insert" /\ ret = "ok"
    /\ manualPop
    /\ size(list) >= 2
    /\ size(list) <= N
    /\ Head(list) = call.val
    /\ size(list) < Len(inserted)

\* C17: in every reachable state last is null exactly when the stored list
\* is empty, so pop() raises the empty-cache error exactly when count() == 0.
C17_LastNullIffEmpty ==
    /\ (last.kind = "null") <=> (size(list) = 0)
    /\ \A r \in pop(list, first, last) : r.thrown <=> (size(list) = 0)

\* C18: for a total ordering predicate, every resident element x satisfies
\* neither order(high, x) nor order(x, low), and order(high, low) never holds.
C18_ExtremaBoundResidents ==
    /\ \A i \in 1..Len(list) :
          ~ord(order, high, list[i]) /\ ~ord(order, list[i], low)
    /\ ~ord(order, high, low)

\* A non-empty cache whose high and low are both values no longer resident.
C18_Witness ==
    /\ size(list) >= 1
    /\ high \notin Range(list)
    /\ low \notin Range(list)

\* C19: for N == 0 every insert call raises the empty-cache error before
\* storing anything, the cache stays empty and high / low keep their
\* default-constructed values.
C19_ZeroCapacityRejectsAll ==
    /\ [](N = 0 => /\ list = <<>>
                   /\ inserted = <<>>
                   /\ high = Default /\ low = Default
                   /\ first = NullPtr /\ last = NullPtr)
    /\ [][(N = 0 /\ InsertEntered) => ret' = "logic_error"]_vars

\* An insert on a capacity-0 cache has just failed.
C19_Witness ==
    /\ N = 0
    /\ call.op = "insert" /\ ret = "logic_error"
    /\ list = <<>>

====
